---- MODULE Spec2Model ----
(***************************************************************************)
(* The drone edge node of src/drone.py as a state machine: the battery     *)
(* thread (update_battery), the operator's battery buttons, main(), the    *)
(* sensor listener threads (start_sensor_server), the sensor connection    *)
(* handlers (handle_sensor_connection) and the summary forwarder threads   *)
(* (send_summary).  Threads interleave statement by statement; a sleep is  *)
(* a step like any other (no clock is modelled).                           *)
(***************************************************************************)
EXTENDS Integers, Sequences, FiniteSets, TLC

\* ------------------------------------------------------------------ bounds
MaxTicks == 1          \* battery drain steps explored
MaxPresses == 1        \* presses of the -10% / +10% buttons explored
MaxReadings == 2       \* sensor readings delivered
MaxConns == 1          \* sensor connection slots
MaxListeners == 2      \* listener thread slots
MaxForwarders == 2     \* forwarder thread slots
MaxDrones == 2         \* drone connections to the aggregator
MaxSummaries == 2      \* Summaries sent to the aggregator
RecordParts == 2       \* pieces a record on the wire can be read in

\* ------------------------------------------------------- program constants
FullLevel == 100       \* battery_level = 100
CriticalLevel == 10    \* if battery_level <= 10
ButtonStep == 10       \* battery_level - 10 / + 10
WindowCap == 10        \* deque(maxlen=10)
SeriesCap == 50        \* deque(maxlen=50)

\* ----------------------------------------------------------------- inputs
InitLevels == {0, 11}              \* configured battery_initial
Thresholds == {9, 10}              \* configured battery_threshold
SensorIds == {"s1"}
TempValues == {50, 110}
HumValues == {40}

Listeners == 1..MaxListeners
Forwarders == 1..MaxForwarders
Conns == 1..MaxConns
Drones == 1..MaxDrones
None == 0

VARIABLES
    battery_threshold,      \* line 39, read nowhere else
    battery_level,          \* line 40
    returning_to_base,      \* line 63
    running,                \* line 64
    status,                 \* line 65
    sensor_server,          \* line 66: None or the listener slot whose socket it is
    active_sensor_sockets,  \* line 67: list of connection slots
    summary_thread,         \* line 68: None or a forwarder slot
    sensor_server_thread,   \* line 69: None or a listener slot
    temp_readings,          \* line 58
    hum_readings,           \* line 59
    anomalies,              \* line 60
    anomalies_lock,         \* line 61: None, or who holds it
    sensor_ids,             \* line 62
    anomaly_history,        \* line 70
    bpc,                    \* battery thread: position in update_battery
    mpc,                    \* main(): position
    lpc,                    \* listener threads: position in start_sensor_server
    lsock,                  \* listener threads: state of the socket serv
    cpc,                    \* handlers: position in handle_sensor_connection
    csock,                  \* handlers: state of client_sock
    reading,                \* handlers: the decoded reading being processed
    fpc,                    \* forwarders: position in send_summary
    fsock,                  \* forwarders: state of the outbound socket sock
    flocal,                 \* forwarders: avg_temp, avg_hum, anomalies_to_send, summary
    ticks,                  \* drain steps taken (bounded exploration)
    presses,                \* button presses taken (bounded exploration)
    nread,                  \* readings delivered so far; also their timestamps
    reported,               \* per reading timestamp: Summaries built that list it as an anomaly
    recorded,               \* timestamps of the readings queued as anomalies
    inserted,               \* every value appended to each window so far, in order
    stream,                 \* per sensor connection: bytes sent by the sensor, not yet read
    buffer,                 \* handlers: line 143, the bytes read and not yet decoded
    uplink,                 \* per drone connection: bytes sent to the aggregator, not yet read
    hpc,                    \* aggregator: position of each handle_client thread
    client_buffer,          \* aggregator: buffer of each handle_client thread
    msg_queue,              \* ServerGUI.msg_queue
    tree,                   \* ServerGUI.tree: the rows of the summary table
    anomaly_text,           \* ServerGUI.anomaly_text: the lines of the anomaly box
    drone_data,             \* the series of each drone_id (CentralServerGUI.drone_data)
    central_anomalies,      \* the anomaly log of each drone_id (CentralServerGUI.anomalies)
    nsent,                  \* Summaries sent to the aggregator so far; also their numbers
    bind_failed             \* listener slots whose thread ended on a failed bind or listen

batVars == <<battery_level, returning_to_base, running, status, bpc, ticks>>
cfgVars == <<battery_threshold>>
guiVars == <<presses>>
mainVars == <<mpc>>
lstVars == <<sensor_server, sensor_server_thread, lpc, lsock>>
conVars == <<active_sensor_sockets, cpc, csock, reading, nread>>
datVars == <<temp_readings, hum_readings, anomalies, anomalies_lock, sensor_ids,
            anomaly_history, reported, recorded, inserted>>
fwdVars == <<summary_thread, fpc, fsock, flocal>>
errVars == <<bind_failed>>
wireVars == <<stream, buffer>>
srvVars == <<uplink, hpc, client_buffer, msg_queue, tree, anomaly_text, drone_data,
            central_anomalies, nsent>>
vars == <<batVars, cfgVars, errVars, guiVars, mainVars, lstVars, conVars, datVars, fwdVars,
         wireVars, srvVars>>

\* ------------------------------------------------------------------- wire
\* json.dumps(record).encode('utf-8') as sendall puts it on the stream: the
\* bytes of the record, in RecordParts pieces that a read can end between
Fragments(record) == [i \in 1..RecordParts |-> [rec |-> record, part |-> i]]

\* json.loads(buffer.decode('utf-8')) succeeds: the buffer holds the bytes of
\* one record, all of them and nothing after them
Decodes(buf) ==
    /\ Len(buf) = RecordParts
    /\ \A i \in 1..RecordParts : buf[i].part = i /\ buf[i].rec = buf[1].rec

\* the value json.loads returns
Decoded(buf) == buf[1].rec

\* no sensor has sent anything, the handlers' buffers are empty
InitWire ==
    /\ stream = [c \in Conns |-> <<>>]
    /\ buffer = [c \in Conns |-> <<>>]

\* the aggregator after ServerGUI() (line 300): nothing accepted, msg_queue,
\* table and anomaly box empty; no series and no anomaly log of any drone
InitServer ==
    /\ uplink = [k \in Drones |-> <<>>]
    /\ hpc = [k \in Drones |-> "none"]
    /\ client_buffer = [k \in Drones |-> <<>>]
    /\ msg_queue = <<>>
    /\ tree = <<>>
    /\ anomaly_text = <<>>
    /\ drone_data = [k \in Drones |-> <<>>]
    /\ central_anomalies = [k \in Drones |-> <<>>]
    /\ nsent = 0

\* ---------------------------------------------------------------- helpers
RECURSIVE SumSeq(_)
SumSeq(s) == IF s = <<>> THEN 0 ELSE Head(s) + SumSeq(Tail(s))

\* DequeAppend without maxlen: nothing is ever evicted
DequeAppendUnbounded(q, x) == Append(q, x)

\* deque(maxlen=10).append: the oldest sample is evicted once full
DequeAppend(q, x) ==
    IF Len(q) < WindowCap THEN Append(q, x) ELSE Append(Tail(q), x)

\* round(num / den, 2) in hundredths; Python rounds an exact half to even
Round2(num, den) ==
    LET n == 100 * num
        q == n \div den
        r == n % den
    IN  IF 2 * r > den THEN q + 1
        ELSE IF 2 * r < den THEN q
        ELSE IF q % 2 = 0 THEN q ELSE q + 1

NoReading == [sensor_id |-> "", temperature |-> 0, humidity |-> 0, timestamp |-> 0]
NoSummary == [built |-> FALSE, sensor_ids |-> {}, average_temperature |-> 0,
              average_humidity |-> 0, anomalies |-> <<>>, battery_level |-> 0]
NoLocal == [avg_temp |-> <<0, 1>>, avg_hum |-> <<0, 1>>, anomalies_to_send |-> <<>>,
            summary |-> NoSummary]

IsAlive(pc) == pc # "dead"

\* the lowest free thread slot, None when every slot holds a live thread
FreeSlot(pcs, slots) ==
    IF \E s \in slots : pcs[s] = "dead"
    THEN CHOOSE s \in slots : pcs[s] = "dead" /\ \A t \in slots : pcs[t] = "dead" => s <= t
    ELSE None

Init ==
    /\ battery_threshold \in Thresholds
    /\ battery_level \in InitLevels
    /\ returning_to_base = FALSE
    /\ running = TRUE
    /\ status = "Normal"
    /\ sensor_server = None
    /\ active_sensor_sockets = <<>>
    /\ summary_thread = None
    /\ sensor_server_thread = None
    /\ temp_readings = <<>>
    /\ hum_readings = <<>>
    /\ anomalies = <<>>
    /\ anomalies_lock = None
    /\ sensor_ids = {}
    /\ anomaly_history = <<>>
    /\ bpc = "off"
    /\ mpc = "start_battery"
    /\ lpc = [l \in Listeners |-> "dead"]
    /\ lsock = [l \in Listeners |-> "none"]
    /\ cpc = [c \in Conns |-> "dead"]
    /\ csock = [c \in Conns |-> "none"]
    /\ reading = [c \in Conns |-> NoReading]
    /\ fpc = [f \in Forwarders |-> "dead"]
    /\ fsock = [f \in Forwarders |-> "none"]
    /\ flocal = [f \in Forwarders |-> NoLocal]
    /\ ticks = 0
    /\ presses = 0
    /\ nread = 0
    /\ reported = [t \in 1..MaxReadings |-> 0]
    /\ recorded = {}
    /\ inserted = [temp |-> temp_readings, hum |-> hum_readings]
    /\ bind_failed = {}
    /\ InitWire
    /\ InitServer

\* ------------------------------------------------------------------ main()
MainStartBattery ==
    /\ mpc = "start_battery"
    /\ bpc' = "loop"
    /\ mpc' = "start_summary"
    /\ UNCHANGED <<battery_level, returning_to_base, running, status, ticks>>
    /\ UNCHANGED <<cfgVars, errVars, wireVars, srvVars, guiVars, lstVars, conVars, datVars, fwdVars>>

MainStartSummary ==
    /\ mpc = "start_summary"
    /\ FreeSlot(fpc, Forwarders) # None
    /\ LET f == FreeSlot(fpc, Forwarders) IN
        /\ summary_thread' = f
        /\ fpc' = [fpc EXCEPT ![f] = "outer"]
    /\ mpc' = "start_server"
    /\ UNCHANGED <<fsock, flocal>>
    /\ UNCHANGED <<batVars, cfgVars, errVars, wireVars, srvVars, guiVars, lstVars, conVars, datVars>>

MainStartServer ==
    /\ mpc = "start_server"
    /\ FreeSlot(lpc, Listeners) # None
    /\ LET l == FreeSlot(lpc, Listeners) IN
        /\ sensor_server_thread' = l
        /\ lpc' = [lpc EXCEPT ![l] = "socket"]
        /\ bind_failed' = bind_failed \ {l}
    /\ mpc' = "done"
    /\ UNCHANGED <<sensor_server, lsock>>
    /\ UNCHANGED <<batVars, cfgVars, wireVars, srvVars, guiVars, conVars, datVars, fwdVars>>

\* --------------------------------------------------------- update_battery
\* lines 78-79: not returning_to_base and battery_level > 0; the thread then
\* sleeps 60 before it drains
BatCheck ==
    /\ bpc = "loop"
    /\ ~returning_to_base
    /\ battery_level > 0
    /\ bpc' = "drain"
    /\ UNCHANGED <<battery_level, returning_to_base, running, status, ticks>>
    /\ UNCHANGED <<cfgVars, errVars, wireVars, srvVars, guiVars, mainVars, lstVars, conVars, datVars, fwdVars>>

\* line 83: the level at which the drone turns back
LowBattery(level) == level <= CriticalLevel

\* lines 81-85: battery_level -= 1, then the low-battery test
BatDrain ==
    /\ bpc = "drain"
    /\ battery_level' = battery_level - 1
    /\ ticks' = IF ticks < MaxTicks THEN ticks + 1 ELSE ticks
    /\ IF LowBattery(battery_level') /\ ~returning_to_base
       THEN /\ returning_to_base' = TRUE
            /\ status' = "Returning to base"
            /\ bpc' = "close_server"
       ELSE /\ bpc' = "loop"
            /\ UNCHANGED <<returning_to_base, status>>
    /\ UNCHANGED running
    /\ UNCHANGED <<cfgVars, errVars, wireVars, srvVars, guiVars, mainVars, lstVars, conVars, datVars, fwdVars>>

\* lines 88-93: if sensor_server: sensor_server.close()
BatCloseServer ==
    /\ bpc = "close_server"
    /\ lsock' = IF sensor_server # None /\ lsock[sensor_server] \in {"open", "listening"}
                THEN [lsock EXCEPT ![sensor_server] = "closed"]
                ELSE lsock
    /\ bpc' = "close_sockets"
    /\ UNCHANGED <<battery_level, returning_to_base, running, status, ticks>>
    /\ UNCHANGED <<sensor_server, sensor_server_thread, lpc>>
    /\ UNCHANGED <<cfgVars, errVars, wireVars, srvVars, guiVars, mainVars, conVars, datVars, fwdVars>>

\* lines 95-99: for s in list(active_sensor_sockets): s.close()
BatCloseSockets ==
    /\ bpc = "close_sockets"
    /\ csock' = [c \in Conns |->
                    IF \E i \in 1..Len(active_sensor_sockets) : active_sensor_sockets[i] = c
                    THEN "closed" ELSE csock[c]]
    /\ bpc' = "clear"
    /\ UNCHANGED <<battery_level, returning_to_base, running, status, ticks>>
    /\ UNCHANGED <<active_sensor_sockets, cpc, reading, nread>>
    /\ UNCHANGED <<cfgVars, errVars, wireVars, srvVars, guiVars, mainVars, lstVars, datVars, fwdVars>>

\* lines 100-102: active_sensor_sockets.clear(); running = False
BatClear ==
    /\ bpc = "clear"
    /\ active_sensor_sockets' = <<>>
    /\ running' = FALSE
    /\ bpc' = "loop"
    /\ UNCHANGED <<battery_level, returning_to_base, status, ticks>>
    /\ UNCHANGED <<cpc, csock, reading, nread>>
    /\ UNCHANGED <<cfgVars, errVars, wireVars, srvVars, guiVars, mainVars, lstVars, datVars, fwdVars>>

\* lines 103-106: the level is already 0 when the tick looks at it
BatDepleted ==
    /\ bpc = "loop"
    /\ ~returning_to_base
    /\ ~(battery_level > 0)
    /\ returning_to_base' = TRUE
    /\ status' = "Returning to base"
    /\ UNCHANGED <<battery_level, running, bpc, ticks>>
    /\ UNCHANGED <<cfgVars, errVars, wireVars, srvVars, guiVars, mainVars, lstVars, conVars, datVars, fwdVars>>

\* BatReturn without the recharge that follows: the drone latches in
\* 'Returning to base' once the battery is low
BatReturnLatched ==
    /\ bpc = "loop"
    /\ returning_to_base
    /\ status' = "Returning to base"
    /\ UNCHANGED <<battery_level, returning_to_base, running, bpc, ticks>>
    /\ UNCHANGED <<cfgVars, errVars, wireVars, srvVars, guiVars, mainVars, lstVars, conVars, datVars, fwdVars>>

\* lines 107-110: returning to base, then sleep 30
BatReturn ==
    /\ bpc = "loop"
    /\ returning_to_base
    /\ status' = "Returning to base"
    /\ bpc' = "charge"
    /\ UNCHANGED <<battery_level, returning_to_base, running, ticks>>
    /\ UNCHANGED <<cfgVars, errVars, wireVars, srvVars, guiVars, mainVars, lstVars, conVars, datVars, fwdVars>>

\* BatCharge with line 111 lost: the machine goes straight back to Normal
BatChargeSkipped ==
    /\ bpc = "charge"
    /\ status' = "Normal"
    /\ bpc' = "recharge"
    /\ UNCHANGED <<battery_level, returning_to_base, running, ticks>>
    /\ UNCHANGED <<cfgVars, errVars, wireVars, srvVars, guiVars, mainVars, lstVars, conVars, datVars, fwdVars>>

\* lines 111-113: status = 'Charging', then sleep 5
BatCharge ==
    /\ bpc = "charge"
    /\ status' = "Charging"
    /\ bpc' = "recharge"
    /\ UNCHANGED <<battery_level, returning_to_base, running, ticks>>
    /\ UNCHANGED <<cfgVars, errVars, wireVars, srvVars, guiVars, mainVars, lstVars, conVars, datVars, fwdVars>>

\* lines 114-116: full battery, the flags are reset
BatRecharge ==
    /\ bpc = "recharge"
    /\ battery_level' = FullLevel
    /\ returning_to_base' = FALSE
    /\ running' = TRUE
    /\ bpc' = "normal"
    /\ UNCHANGED <<status, ticks>>
    /\ UNCHANGED <<cfgVars, errVars, wireVars, srvVars, guiVars, mainVars, lstVars, conVars, datVars, fwdVars>>

\* line 117: status = 'Normal'
BatNormal ==
    /\ bpc = "normal"
    /\ status' = "Normal"
    /\ bpc' = "restart_server"
    /\ UNCHANGED <<battery_level, returning_to_base, running, ticks>>
    /\ UNCHANGED <<cfgVars, errVars, wireVars, srvVars, guiVars, mainVars, lstVars, conVars, datVars, fwdVars>>

\* lines 120-122: a new listener thread unless sensor_server_thread is alive
BatRestartServer ==
    /\ bpc = "restart_server"
    /\ IF sensor_server_thread = None \/ ~IsAlive(lpc[sensor_server_thread])
       THEN /\ FreeSlot(lpc, Listeners) # None
            /\ LET l == FreeSlot(lpc, Listeners) IN
                /\ sensor_server_thread' = l
                /\ lpc' = [lpc EXCEPT ![l] = "socket"]
                /\ bind_failed' = bind_failed \ {l}
       ELSE UNCHANGED <<sensor_server_thread, lpc, bind_failed>>
    /\ bpc' = "restart_summary"
    /\ UNCHANGED <<battery_level, returning_to_base, running, status, ticks>>
    /\ UNCHANGED <<sensor_server, lsock>>
    /\ UNCHANGED <<cfgVars, wireVars, srvVars, guiVars, mainVars, conVars, datVars, fwdVars>>

\* BatRestartSummary without the test of line 123: a forwarder is started
\* whether or not the previous one is alive
BatRestartSummaryUnguarded ==
    /\ bpc = "restart_summary"
    /\ FreeSlot(fpc, Forwarders) # None
    /\ LET f == FreeSlot(fpc, Forwarders) IN
        /\ summary_thread' = f
        /\ fpc' = [fpc EXCEPT ![f] = "outer"]
    /\ UNCHANGED <<fsock, flocal>>
    /\ bpc' = "loop"
    /\ UNCHANGED <<battery_level, returning_to_base, running, status, ticks>>
    /\ UNCHANGED <<cfgVars, errVars, wireVars, srvVars, guiVars, mainVars, lstVars, conVars, datVars>>

\* lines 123-125: a new forwarder thread unless summary_thread is alive
BatRestartSummary ==
    /\ bpc = "restart_summary"
    /\ IF summary_thread = None \/ ~IsAlive(fpc[summary_thread])
       THEN /\ FreeSlot(fpc, Forwarders) # None
            /\ LET f == FreeSlot(fpc, Forwarders) IN
                /\ summary_thread' = f
                /\ fpc' = [fpc EXCEPT ![f] = "outer"]
       ELSE UNCHANGED <<summary_thread, fpc>>
    /\ bpc' = "loop"
    /\ UNCHANGED <<battery_level, returning_to_base, running, status, ticks>>
    /\ UNCHANGED <<fsock, flocal>>
    /\ UNCHANGED <<cfgVars, errVars, wireVars, srvVars, guiVars, mainVars, lstVars, conVars, datVars>>

\* ------------------------------------------------- battery control buttons
\* lines 333-336
DecreaseBattery ==
    /\ battery_level' = IF battery_level - ButtonStep > 0 THEN battery_level - ButtonStep ELSE 0
    /\ presses' = IF presses < MaxPresses THEN presses + 1 ELSE presses
    /\ UNCHANGED <<returning_to_base, running, status, bpc, ticks>>
    /\ UNCHANGED <<cfgVars, errVars, wireVars, srvVars, mainVars, lstVars, conVars, datVars, fwdVars>>

\* lines 338-341
IncreaseBattery ==
    /\ battery_level' = IF battery_level + ButtonStep < FullLevel
                        THEN battery_level + ButtonStep ELSE FullLevel
    /\ presses' = IF presses < MaxPresses THEN presses + 1 ELSE presses
    /\ UNCHANGED <<returning_to_base, running, status, bpc, ticks>>
    /\ UNCHANGED <<cfgVars, errVars, wireVars, srvVars, mainVars, lstVars, conVars, datVars, fwdVars>>

\* ----------------------------------------------------- start_sensor_server
\* lines 214-215: the socket is created and published in sensor_server
ListenerSocket(l) ==
    /\ lpc[l] = "socket"
    /\ lsock' = [lsock EXCEPT ![l] = "open"]
    /\ sensor_server' = l
    /\ lpc' = [lpc EXCEPT ![l] = "bind"]
    /\ UNCHANGED sensor_server_thread
    /\ UNCHANGED <<batVars, cfgVars, errVars, wireVars, srvVars, guiVars, mainVars, conVars, datVars, fwdVars>>

\* the port is taken while another socket listens on it
PortInUse(l) == \E o \in Listeners : o # l /\ lsock[o] = "listening"

\* lines 217-218: bind and listen; an OSError (socket closed meanwhile, port
\* in use) ends the thread, and leaving the with block closes the socket
ListenerBind(l) ==
    /\ lpc[l] = "bind"
    /\ IF lsock[l] = "open" /\ ~PortInUse(l)
       THEN /\ lsock' = [lsock EXCEPT ![l] = "listening"]
            /\ lpc' = [lpc EXCEPT ![l] = "loop"]
            /\ UNCHANGED bind_failed
       ELSE /\ lsock' = [lsock EXCEPT ![l] = "closed"]
            /\ lpc' = [lpc EXCEPT ![l] = "dead"]
            /\ bind_failed' = bind_failed \cup {l}
    /\ UNCHANGED <<sensor_server, sensor_server_thread>>
    /\ UNCHANGED <<batVars, cfgVars, wireVars, srvVars, guiVars, mainVars, conVars, datVars, fwdVars>>

\* line 220: while not returning_to_base
ListenerLoop(l) ==
    /\ lpc[l] = "loop"
    /\ IF returning_to_base
       THEN /\ lsock' = [lsock EXCEPT ![l] = "closed"]
            /\ lpc' = [lpc EXCEPT ![l] = "dead"]
       ELSE /\ lpc' = [lpc EXCEPT ![l] = "accept"]
            /\ UNCHANGED lsock
    /\ UNCHANGED <<sensor_server, sensor_server_thread>>
    /\ UNCHANGED <<batVars, cfgVars, errVars, wireVars, srvVars, guiVars, mainVars, conVars, datVars, fwdVars>>

\* lines 222-223: a sensor connects, accept returns and a handler thread starts
ListenerAccept(l) ==
    /\ lpc[l] = "accept"
    /\ lsock[l] = "listening"
    /\ FreeSlot(cpc, Conns) # None
    /\ LET c == FreeSlot(cpc, Conns) IN
        /\ cpc' = [cpc EXCEPT ![c] = "register"]
        /\ csock' = [csock EXCEPT ![c] = "open"]
    /\ lpc' = [lpc EXCEPT ![l] = "loop"]
    /\ UNCHANGED <<active_sensor_sockets, reading, nread>>
    /\ UNCHANGED <<sensor_server, sensor_server_thread, lsock>>
    /\ UNCHANGED <<batVars, cfgVars, errVars, wireVars, srvVars, guiVars, mainVars, datVars, fwdVars>>

\* lines 224-225: accept on the closed socket raises OSError, the loop breaks
ListenerClosed(l) ==
    /\ lpc[l] = "accept"
    /\ lsock[l] = "closed"
    /\ lpc' = [lpc EXCEPT ![l] = "dead"]
    /\ UNCHANGED <<sensor_server, sensor_server_thread, lsock>>
    /\ UNCHANGED <<batVars, cfgVars, errVars, wireVars, srvVars, guiVars, mainVars, conVars, datVars, fwdVars>>

\* --------------------------------------------------------- detect_anomaly
\* lines 129-137 on integer samples: |value - mean| > 2 * std, both sides
\* squared and scaled by n^3 (n the number of samples, S their sum):
\* n * (n*value - S)^2 > 4 * sum of (n*x - S)^2
RECURSIVE SumSqDev(_, _, _)
SumSqDev(s, n, S) ==
    IF s = <<>> THEN 0
    ELSE (n * Head(s) - S) * (n * Head(s) - S) + SumSqDev(Tail(s), n, S)

\* detect_anomaly without the test of line 130: short windows are judged too
detect_anomaly_any_length(value, readings) ==
    LET n == Len(readings)
        S == SumSeq(readings)
    IN  n * (n * value - S) * (n * value - S) > 4 * SumSqDev(readings, n, S)

detect_anomaly(value, readings) ==
    IF Len(readings) < WindowCap THEN FALSE
    ELSE LET n == Len(readings)
             S == SumSeq(readings)
         IN  n * (n * value - S) * (n * value - S) > 4 * SumSqDev(readings, n, S)

\* ----------------------------------------------- handle_sensor_connection
InList(q, x) == \E i \in 1..Len(q) : q[i] = x

\* list.remove(x): the first occurrence is dropped
RECURSIVE ListRemove(_, _)
ListRemove(q, x) ==
    IF q = <<>> THEN <<>>
    ELSE IF Head(q) = x THEN Tail(q)
    ELSE <<Head(q)>> \o ListRemove(Tail(q), x)

\* line 144: active_sensor_sockets.append(client_sock)
HandlerRegister(c) ==
    /\ cpc[c] = "register"
    /\ active_sensor_sockets' = Append(active_sensor_sockets, c)
    /\ cpc' = [cpc EXCEPT ![c] = "loop"]
    /\ UNCHANGED <<csock, reading, nread>>
    /\ UNCHANGED <<batVars, cfgVars, errVars, wireVars, srvVars, guiVars, mainVars, lstVars, datVars, fwdVars>>

\* line 146: while not returning_to_base; leaving the with block closes client_sock
HandlerLoop(c) ==
    /\ cpc[c] = "loop"
    /\ IF returning_to_base
       THEN /\ cpc' = [cpc EXCEPT ![c] = "check"]
            /\ csock' = [csock EXCEPT ![c] = "closed"]
       ELSE /\ cpc' = [cpc EXCEPT ![c] = "recv"]
            /\ UNCHANGED csock
    /\ UNCHANGED <<active_sensor_sockets, reading, nread>>
    /\ UNCHANGED <<batVars, cfgVars, errVars, wireVars, srvVars, guiVars, mainVars, lstVars, datVars, fwdVars>>

\* lines 148-157: a chunk holding one whole reading arrives and decodes
HandlerRecv(c) ==
    /\ cpc[c] = "recv"
    /\ csock[c] = "open"
    /\ nread < MaxReadings
    /\ \E sid \in SensorIds, temp \in TempValues, hum \in HumValues :
        reading' = [reading EXCEPT ![c] = [sensor_id |-> sid, temperature |-> temp,
                                           humidity |-> hum, timestamp |-> nread + 1]]
    /\ nread' = nread + 1
    /\ cpc' = [cpc EXCEPT ![c] = "add_id"]
    /\ UNCHANGED <<active_sensor_sockets, csock>>
    /\ UNCHANGED <<batVars, cfgVars, errVars, wireVars, srvVars, guiVars, mainVars, lstVars, datVars, fwdVars>>

\* sensor.py lines 76-79: sendall(json.dumps(reading).encode('utf-8')), sleep
SensorSendall(c) ==
    /\ csock[c] = "open"
    /\ nread < MaxReadings
    /\ \E sid \in SensorIds, temp \in TempValues, hum \in HumValues :
        stream' = [stream EXCEPT ![c] = @ \o
            Fragments([sensor_id |-> sid, temperature |-> temp,
                       humidity |-> hum, timestamp |-> nread + 1])]
    /\ nread' = nread + 1
    /\ UNCHANGED <<active_sensor_sockets, cpc, csock, reading, buffer>>
    /\ UNCHANGED <<batVars, cfgVars, errVars, srvVars, guiVars, mainVars, lstVars, datVars, fwdVars>>

\* lines 148-154, 166-167: recv returns the next bytes of the stream, as many
\* as have arrived; they are added to the buffer and the buffer is decoded; on
\* success the buffer is emptied and the reading processed, on
\* JSONDecodeError the loop continues with the buffer kept
HandlerRecvChunk(c) ==
    /\ cpc[c] = "recv"
    /\ csock[c] = "open"
    /\ \E n \in 1..Len(stream[c]) :
        LET chunk == SubSeq(stream[c], 1, n)
            joined == buffer[c] \o chunk
        IN  /\ stream' = [stream EXCEPT ![c] = SubSeq(@, n + 1, Len(@))]
            /\ IF Decodes(joined)
               THEN /\ reading' = [reading EXCEPT ![c] = Decoded(joined)]
                    /\ buffer' = [buffer EXCEPT ![c] = <<>>]
                    /\ cpc' = [cpc EXCEPT ![c] = "add_id"]
               ELSE /\ buffer' = [buffer EXCEPT ![c] = joined]
                    /\ cpc' = [cpc EXCEPT ![c] = "loop"]
                    /\ UNCHANGED reading
    /\ UNCHANGED <<active_sensor_sockets, csock, nread>>
    /\ UNCHANGED <<batVars, cfgVars, errVars, srvVars, guiVars, mainVars, lstVars, datVars, fwdVars>>

\* lines 149-150, 168-172: end of stream, reset by the peer, or an error on the
\* socket the battery thread closed; the loop breaks and client_sock is closed
HandlerRecvEnd(c) ==
    /\ cpc[c] = "recv"
    /\ cpc' = [cpc EXCEPT ![c] = "check"]
    /\ csock' = [csock EXCEPT ![c] = "closed"]
    /\ UNCHANGED <<active_sensor_sockets, reading, nread>>
    /\ UNCHANGED <<batVars, cfgVars, errVars, wireVars, srvVars, guiVars, mainVars, lstVars, datVars, fwdVars>>

\* line 158: sensor_ids.add(reading.get('sensor_id', ''))
HandlerAddId(c) ==
    /\ cpc[c] = "add_id"
    /\ sensor_ids' = sensor_ids \cup {reading[c].sensor_id}
    /\ cpc' = [cpc EXCEPT ![c] = "temp"]
    /\ UNCHANGED <<temp_readings, hum_readings, anomalies, anomalies_lock, anomaly_history, reported, recorded, inserted>>
    /\ UNCHANGED <<active_sensor_sockets, csock, reading, nread>>
    /\ UNCHANGED <<batVars, cfgVars, errVars, wireVars, srvVars, guiVars, mainVars, lstVars, fwdVars>>

\* line 159: temp_readings.append(temp)
HandlerTemp(c) ==
    /\ cpc[c] = "temp"
    /\ temp_readings' = DequeAppend(temp_readings, reading[c].temperature)
    /\ inserted' = [inserted EXCEPT !.temp = Append(@, reading[c].temperature)]
    /\ cpc' = [cpc EXCEPT ![c] = "hum"]
    /\ UNCHANGED <<hum_readings, anomalies, anomalies_lock, sensor_ids, anomaly_history, reported, recorded>>
    /\ UNCHANGED <<active_sensor_sockets, csock, reading, nread>>
    /\ UNCHANGED <<batVars, cfgVars, errVars, wireVars, srvVars, guiVars, mainVars, lstVars, fwdVars>>

\* line 160: hum_readings.append(hum)
HandlerHum(c) ==
    /\ cpc[c] = "hum"
    /\ hum_readings' = DequeAppend(hum_readings, reading[c].humidity)
    /\ inserted' = [inserted EXCEPT !.hum = Append(@, reading[c].humidity)]
    /\ cpc' = [cpc EXCEPT ![c] = "detect"]
    /\ UNCHANGED <<temp_readings, anomalies, anomalies_lock, sensor_ids, anomaly_history, reported, recorded>>
    /\ UNCHANGED <<active_sensor_sockets, csock, reading, nread>>
    /\ UNCHANGED <<batVars, cfgVars, errVars, wireVars, srvVars, guiVars, mainVars, lstVars, fwdVars>>

\* line 164: the anomaly entry of a reading
AnomalyOf(r) == [sensor_id |-> r.sensor_id, value |-> r.temperature, timestamp |-> r.timestamp]

\* line 162: if detect_anomaly(temp, temp_readings)
HandlerDetect(c) ==
    /\ cpc[c] = "detect"
    /\ IF detect_anomaly(reading[c].temperature, temp_readings)
       THEN /\ cpc' = [cpc EXCEPT ![c] = "record"]
            /\ UNCHANGED reading
       ELSE /\ cpc' = [cpc EXCEPT ![c] = "loop"]
            /\ reading' = [reading EXCEPT ![c] = NoReading]
    /\ UNCHANGED <<active_sensor_sockets, csock, nread>>
    /\ UNCHANGED <<batVars, cfgVars, errVars, wireVars, srvVars, guiVars, mainVars, lstVars, datVars, fwdVars>>

\* line 163: with anomalies_lock
LockFree == anomalies_lock = None

\* lines 163-164: the lock is taken, the anomaly queued, the lock released
HandlerRecord(c) ==
    /\ cpc[c] = "record"
    /\ LockFree
    /\ anomalies' = Append(anomalies, AnomalyOf(reading[c]))
    /\ recorded' = recorded \cup {reading[c].timestamp}
    /\ reading' = [reading EXCEPT ![c] = NoReading]
    /\ cpc' = [cpc EXCEPT ![c] = "loop"]
    /\ UNCHANGED <<temp_readings, hum_readings, anomalies_lock, sensor_ids, anomaly_history, reported, inserted>>
    /\ UNCHANGED <<active_sensor_sockets, csock, nread>>
    /\ UNCHANGED <<batVars, cfgVars, errVars, wireVars, srvVars, guiVars, mainVars, lstVars, fwdVars>>

\* line 174: if client_sock in active_sensor_sockets
HandlerCheck(c) ==
    /\ cpc[c] = "check"
    /\ cpc' = [cpc EXCEPT ![c] = IF InList(active_sensor_sockets, c) THEN "remove" ELSE "dead"]
    /\ UNCHANGED <<active_sensor_sockets, csock, reading, nread>>
    /\ UNCHANGED <<batVars, cfgVars, errVars, wireVars, srvVars, guiVars, mainVars, lstVars, datVars, fwdVars>>

\* HandlerRemove with the remove of line 175 lost: the thread ends and its
\* connection stays in the list
HandlerRemoveKept(c) ==
    /\ cpc[c] = "remove"
    /\ cpc' = [cpc EXCEPT ![c] = "dead"]
    /\ UNCHANGED <<active_sensor_sockets, csock, reading, nread>>
    /\ UNCHANGED <<batVars, cfgVars, errVars, wireVars, srvVars, guiVars, mainVars, lstVars, datVars, fwdVars>>

\* line 175: active_sensor_sockets.remove(client_sock); the thread ends, on the
\* ValueError of a remove that does not find the connection as well
HandlerRemove(c) ==
    /\ cpc[c] = "remove"
    /\ active_sensor_sockets' = ListRemove(active_sensor_sockets, c)
    /\ cpc' = [cpc EXCEPT ![c] = "dead"]
    /\ UNCHANGED <<csock, reading, nread>>
    /\ UNCHANGED <<batVars, cfgVars, errVars, wireVars, srvVars, guiVars, mainVars, lstVars, datVars, fwdVars>>

\* ------------------------------------------------------------ send_summary
\* lines 181, 185: running and not returning_to_base
Gate == running /\ ~returning_to_base

\* line 181; when the loop ends the thread ends and its socket is released
FwdOuter(f) ==
    /\ fpc[f] = "outer"
    /\ IF Gate
       THEN /\ fpc' = [fpc EXCEPT ![f] = "connect"]
            /\ UNCHANGED <<fsock, flocal>>
       ELSE /\ fpc' = [fpc EXCEPT ![f] = "dead"]
            /\ fsock' = [fsock EXCEPT ![f] = "none"]
            /\ flocal' = [flocal EXCEPT ![f] = NoLocal]
    /\ UNCHANGED summary_thread
    /\ UNCHANGED <<batVars, cfgVars, errVars, wireVars, srvVars, guiVars, mainVars, lstVars, conVars, datVars>>

\* lines 183-184: a new socket replaces the previous one and connects
FwdConnect(f) ==
    /\ fpc[f] = "connect"
    /\ fsock' = [fsock EXCEPT ![f] = "connected"]
    /\ fpc' = [fpc EXCEPT ![f] = "inner"]
    /\ UNCHANGED <<summary_thread, flocal>>
    /\ UNCHANGED <<batVars, cfgVars, errVars, wireVars, srvVars, guiVars, mainVars, lstVars, conVars, datVars>>

\* lines 184, 208-210: the aggregator cannot be reached; log, sleep 5, retry
FwdConnectFail(f) ==
    /\ fpc[f] = "connect"
    /\ fsock' = [fsock EXCEPT ![f] = "none"]
    /\ fpc' = [fpc EXCEPT ![f] = "outer"]
    /\ UNCHANGED <<summary_thread, flocal>>
    /\ UNCHANGED <<batVars, cfgVars, errVars, wireVars, srvVars, guiVars, mainVars, lstVars, conVars, datVars>>

\* line 185
FwdInner(f) ==
    /\ fpc[f] = "inner"
    /\ fpc' = [fpc EXCEPT ![f] = IF Gate THEN "avg" ELSE "outer"]
    /\ UNCHANGED <<summary_thread, fsock, flocal>>
    /\ UNCHANGED <<batVars, cfgVars, errVars, wireVars, srvVars, guiVars, mainVars, lstVars, conVars, datVars>>

\* sum(q) / len(q) as the fraction <<sum, len>>
Mean(q) == <<SumSeq(q), Len(q)>>
Zero == <<0, 1>>

\* lines 186-187, 189-190: the temperature window decides the branch
FwdAvg(f) ==
    /\ fpc[f] = "avg"
    /\ IF temp_readings # <<>>
       THEN /\ flocal' = [flocal EXCEPT ![f].avg_temp = Mean(temp_readings)]
            /\ fpc' = [fpc EXCEPT ![f] = "avg_hum"]
       ELSE /\ flocal' = [flocal EXCEPT ![f].avg_temp = Zero, ![f].avg_hum = Zero]
            /\ fpc' = [fpc EXCEPT ![f] = "lock"]
    /\ UNCHANGED <<summary_thread, fsock>>
    /\ UNCHANGED <<batVars, cfgVars, errVars, wireVars, srvVars, guiVars, mainVars, lstVars, conVars, datVars>>

\* line 188: sum(hum_readings) / len(hum_readings); on an empty window the
\* division raises, and lines 208-210 log, sleep 5 and start over
FwdAvgHum(f) ==
    /\ fpc[f] = "avg_hum"
    /\ IF hum_readings # <<>>
       THEN /\ flocal' = [flocal EXCEPT ![f].avg_hum = Mean(hum_readings)]
            /\ fpc' = [fpc EXCEPT ![f] = "lock"]
       ELSE /\ flocal' = [flocal EXCEPT ![f] = NoLocal]
            /\ fpc' = [fpc EXCEPT ![f] = "outer"]
    /\ UNCHANGED <<summary_thread, fsock>>
    /\ UNCHANGED <<batVars, cfgVars, errVars, wireVars, srvVars, guiVars, mainVars, lstVars, conVars, datVars>>

\* lines 191-192: the lock is taken and the queue copied
FwdLock(f) ==
    /\ fpc[f] = "lock"
    /\ anomalies_lock = None
    /\ anomalies_lock' = f
    /\ flocal' = [flocal EXCEPT ![f].anomalies_to_send = anomalies]
    /\ fpc' = [fpc EXCEPT ![f] = "extend"]
    /\ UNCHANGED <<temp_readings, hum_readings, anomalies, sensor_ids, anomaly_history, reported, recorded, inserted>>
    /\ UNCHANGED <<summary_thread, fsock>>
    /\ UNCHANGED <<batVars, cfgVars, errVars, wireVars, srvVars, guiVars, mainVars, lstVars, conVars>>

\* line 193: anomaly_history.extend(anomalies)
FwdExtend(f) ==
    /\ fpc[f] = "extend"
    /\ anomaly_history' = anomaly_history \o anomalies
    /\ fpc' = [fpc EXCEPT ![f] = "clear_anomalies"]
    /\ UNCHANGED <<temp_readings, hum_readings, anomalies, anomalies_lock, sensor_ids, reported, recorded, inserted>>
    /\ UNCHANGED <<summary_thread, fsock, flocal>>
    /\ UNCHANGED <<batVars, cfgVars, errVars, wireVars, srvVars, guiVars, mainVars, lstVars, conVars>>

\* Cleared with the clear of line 194 lost: the queue keeps its entries
NotCleared(queue) == queue

\* line 194: anomalies.clear()
Cleared(queue) == <<>>

\* line 194, and the lock is released on leaving the with block
FwdClearAnomalies(f) ==
    /\ fpc[f] = "clear_anomalies"
    /\ anomalies' = Cleared(anomalies)
    /\ anomalies_lock' = None
    /\ fpc' = [fpc EXCEPT ![f] = "build"]
    /\ UNCHANGED <<temp_readings, hum_readings, sensor_ids, anomaly_history, reported, recorded, inserted>>
    /\ UNCHANGED <<summary_thread, fsock, flocal>>
    /\ UNCHANGED <<batVars, cfgVars, errVars, wireVars, srvVars, guiVars, mainVars, lstVars, conVars>>

\* lines 195-203: the Summary is built
FwdBuild(f) ==
    /\ fpc[f] = "build"
    /\ flocal' = [flocal EXCEPT ![f].summary =
            [built |-> TRUE,
             sensor_ids |-> sensor_ids,
             average_temperature |-> Round2(flocal[f].avg_temp[1], flocal[f].avg_temp[2]),
             average_humidity |-> Round2(flocal[f].avg_hum[1], flocal[f].avg_hum[2]),
             anomalies |-> flocal[f].anomalies_to_send,
             battery_level |-> battery_level]]
    /\ reported' = [t \in 1..MaxReadings |->
            IF \E i \in 1..Len(flocal[f].anomalies_to_send) :
                    flocal[f].anomalies_to_send[i].timestamp = t
            THEN reported[t] + 1 ELSE reported[t]]
    /\ fpc' = [fpc EXCEPT ![f] = "send"]
    /\ UNCHANGED <<temp_readings, hum_readings, anomalies, anomalies_lock, sensor_ids, anomaly_history, recorded, inserted>>
    /\ UNCHANGED <<summary_thread, fsock>>
    /\ UNCHANGED <<batVars, cfgVars, errVars, wireVars, srvVars, guiVars, mainVars, lstVars, conVars>>

\* line 204: sock.sendall(...) succeeds
FwdSend(f) ==
    /\ fpc[f] = "send"
    /\ fsock[f] = "connected"
    /\ fpc' = [fpc EXCEPT ![f] = "clear"]
    /\ UNCHANGED <<summary_thread, fsock, flocal>>
    /\ UNCHANGED <<batVars, cfgVars, errVars, wireVars, srvVars, guiVars, mainVars, lstVars, conVars, datVars>>

\* FwdSendFail with the except clause of line 208 outside the outer loop:
\* the failure ends the thread
FwdSendFailStops(f) ==
    /\ fpc[f] = "send"
    /\ flocal' = [flocal EXCEPT ![f] = NoLocal]
    /\ fpc' = [fpc EXCEPT ![f] = "dead"]
    /\ fsock' = [fsock EXCEPT ![f] = "none"]
    /\ UNCHANGED summary_thread
    /\ UNCHANGED <<batVars, cfgVars, errVars, wireVars, srvVars, guiVars, mainVars, lstVars, conVars, datVars>>

\* lines 204, 208-210: sendall raises, the connection is of no more use; log,
\* sleep 5, reconnect
FwdSendFail(f) ==
    /\ fpc[f] = "send"
    /\ flocal' = [flocal EXCEPT ![f] = NoLocal]
    /\ fsock' = [fsock EXCEPT ![f] = "broken"]
    /\ fpc' = [fpc EXCEPT ![f] = "outer"]
    /\ UNCHANGED summary_thread
    /\ UNCHANGED <<batVars, cfgVars, errVars, wireVars, srvVars, guiVars, mainVars, lstVars, conVars, datVars>>

\* lines 206-207: sensor_ids.clear(), then sleep 5
FwdClear(f) ==
    /\ fpc[f] = "clear"
    /\ sensor_ids' = {}
    /\ flocal' = [flocal EXCEPT ![f] = NoLocal]
    /\ fpc' = [fpc EXCEPT ![f] = "inner"]
    /\ UNCHANGED <<temp_readings, hum_readings, anomalies, anomalies_lock, anomaly_history, reported, recorded, inserted>>
    /\ UNCHANGED <<summary_thread, fsock>>
    /\ UNCHANGED <<batVars, cfgVars, errVars, wireVars, srvVars, guiVars, mainVars, lstVars, conVars>>

\* -------------------------------------------------------------- aggregator
\* server.py lines 107-114: a drone's connection is accepted and its
\* handle_client thread started
RunServerAccept(k) ==
    /\ hpc[k] = "none"
    /\ hpc' = [hpc EXCEPT ![k] = "recv"]
    /\ UNCHANGED <<uplink, client_buffer, msg_queue, tree, anomaly_text, drone_data,
                   central_anomalies, nsent>>
    /\ UNCHANGED <<batVars, cfgVars, errVars, wireVars, guiVars, mainVars, lstVars, conVars, datVars, fwdVars>>

\* drone.py line 204 seen from the aggregator: drone k sends its next Summary,
\* with or without an anomaly in it
DroneSendall(k) ==
    /\ hpc[k] = "recv"
    /\ nsent < MaxSummaries
    /\ \E listed \in {<<>>, <<[sensor_id |-> "s1", value |-> 50, timestamp |-> nsent + 1]>>} :
        uplink' = [uplink EXCEPT ![k] = @ \o
            Fragments([drone_id |-> k, number |-> nsent + 1, anomalies |-> listed])]
    /\ nsent' = nsent + 1
    /\ UNCHANGED <<hpc, client_buffer, msg_queue, tree, anomaly_text, drone_data,
                   central_anomalies>>
    /\ UNCHANGED <<batVars, cfgVars, errVars, wireVars, guiVars, mainVars, lstVars, conVars, datVars, fwdVars>>

\* server.py lines 122-132: recv(4096) returns the next bytes of the stream;
\* they are added to the buffer and the buffer is decoded; on success the
\* Summary is put on msg_queue and the buffer emptied, on JSONDecodeError the
\* loop continues with the buffer kept
ClientRecv(k) ==
    /\ hpc[k] = "recv"
    /\ \E n \in 1..Len(uplink[k]) :
        LET data == SubSeq(uplink[k], 1, n)
            joined == client_buffer[k] \o data
        IN  /\ uplink' = [uplink EXCEPT ![k] = SubSeq(@, n + 1, Len(@))]
            /\ IF Decodes(joined)
               THEN /\ msg_queue' = Append(msg_queue, Decoded(joined))
                    /\ client_buffer' = [client_buffer EXCEPT ![k] = <<>>]
               ELSE /\ client_buffer' = [client_buffer EXCEPT ![k] = joined]
                    /\ UNCHANGED msg_queue
    /\ UNCHANGED <<hpc, tree, anomaly_text, drone_data, central_anomalies, nsent>>
    /\ UNCHANGED <<batVars, cfgVars, errVars, wireVars, guiVars, mainVars, lstVars, conVars, datVars, fwdVars>>

\* server.py lines 123-124, 133-135: the drone closed or reset the connection;
\* the thread ends
ClientRecvEnd(k) ==
    /\ hpc[k] = "recv"
    /\ hpc' = [hpc EXCEPT ![k] = "dead"]
    /\ uplink' = [uplink EXCEPT ![k] = <<>>]
    /\ UNCHANGED <<client_buffer, msg_queue, tree, anomaly_text, drone_data,
                   central_anomalies, nsent>>
    /\ UNCHANGED <<batVars, cfgVars, errVars, wireVars, guiVars, mainVars, lstVars, conVars, datVars, fwdVars>>

\* server.py lines 92-95: one line of the anomaly box per anomaly
AnomalyLines(listed) ==
    [i \in 1..Len(listed) |->
        <<listed[i].timestamp, listed[i].sensor_id, listed[i].value>>]

\* ServerGUI.process_queue, server.py lines 73-95, polled every 500 ms (lines
\* 69, 97): the next message is taken off msg_queue, a row added to the table
\* and its anomalies to the anomaly box; nothing else is written
ProcessQueue ==
    /\ msg_queue # <<>>
    /\ LET msg == Head(msg_queue)
       IN  /\ tree' = Append(tree, <<msg.drone_id, msg.number>>)
           /\ anomaly_text' = anomaly_text \o AnomalyLines(msg.anomalies)
    /\ msg_queue' = Tail(msg_queue)
    /\ UNCHANGED <<uplink, hpc, client_buffer, drone_data, central_anomalies, nsent>>
    /\ UNCHANGED <<batVars, cfgVars, errVars, wireVars, guiVars, mainVars, lstVars, conVars, datVars, fwdVars>>

\* ----------------------------------------------------------- specification
Battery ==
    \/ (ticks < MaxTicks /\ BatCheck)
    \/ BatDrain
    \/ BatCloseServer
    \/ BatCloseSockets
    \/ BatClear
    \/ BatDepleted
    \/ BatReturn
    \/ BatCharge
    \/ BatRecharge
    \/ BatNormal
    \/ BatRestartServer
    \/ BatRestartSummary

Buttons ==
    \/ (presses < MaxPresses /\ DecreaseBattery)
    \/ (presses < MaxPresses /\ IncreaseBattery)

Main ==
    \/ MainStartBattery
    \/ MainStartSummary
    \/ MainStartServer

Listener(l) ==
    \/ ListenerSocket(l)
    \/ ListenerBind(l)
    \/ ListenerLoop(l)
    \/ ListenerAccept(l)
    \/ ListenerClosed(l)

HandlerStart(c) ==
    \/ HandlerRegister(c)

HandlerEnd(c) ==
    \/ HandlerLoop(c)
    \/ HandlerRecvEnd(c)
    \/ HandlerCheck(c)
    \/ HandlerRemove(c)

HandlerData(c) ==
    \/ HandlerRecv(c)
    \/ HandlerAddId(c)
    \/ HandlerTemp(c)
    \/ HandlerHum(c)
    \/ HandlerDetect(c)
    \/ HandlerRecord(c)

\* the forwarder while no reading has arrived: the temperature window is
\* empty and line 188 is not reached
ForwarderIdle(f) ==
    \/ FwdOuter(f)
    \/ FwdConnect(f)
    \/ FwdConnectFail(f)
    \/ FwdInner(f)
    \/ FwdAvg(f)
    \/ FwdLock(f)
    \/ FwdExtend(f)
    \/ FwdClearAnomalies(f)
    \/ FwdBuild(f)
    \/ FwdSend(f)
    \/ FwdSendFail(f)
    \/ FwdClear(f)

Forwarder(f) ==
    \/ FwdOuter(f)
    \/ FwdConnect(f)
    \/ FwdConnectFail(f)
    \/ FwdInner(f)
    \/ FwdAvg(f)
    \/ FwdAvgHum(f)
    \/ FwdLock(f)
    \/ FwdExtend(f)
    \/ FwdClearAnomalies(f)
    \/ FwdBuild(f)
    \/ FwdSend(f)
    \/ FwdSendFail(f)
    \/ FwdClear(f)

\* the whole node from process start, its sensors connecting and
\* disconnecting without sending a reading
Next ==
    \/ Battery
    \/ Main
    \/ \E l \in Listeners : Listener(l)
    \/ \E c \in Conns : HandlerStart(c)
    \/ \E c \in Conns : HandlerEnd(c)
    \/ \E f \in Forwarders : ForwarderIdle(f)

\* the node as configured by default: the threshold is the 10 of line 83
InitNode == Init /\ battery_threshold = CriticalLevel

Spec == InitNode /\ [][Next]_vars

\* the node once main() has returned: lines 232-238 run without blocking and
\* leave the battery thread, the first forwarder and the first listener started
InitStarted ==
    /\ battery_threshold = CriticalLevel
    /\ battery_level \in InitLevels
    /\ returning_to_base = FALSE
    /\ running = TRUE
    /\ status = "Normal"
    /\ sensor_server = None
    /\ active_sensor_sockets = <<>>
    /\ summary_thread = 1
    /\ sensor_server_thread = 1
    /\ temp_readings = <<>>
    /\ hum_readings = <<>>
    /\ anomalies = <<>>
    /\ anomalies_lock = None
    /\ sensor_ids = {}
    /\ anomaly_history = <<>>
    /\ bpc = "loop"
    /\ mpc = "done"
    /\ lpc = [l \in Listeners |-> IF l = 1 THEN "socket" ELSE "dead"]
    /\ lsock = [l \in Listeners |-> "none"]
    /\ cpc = [c \in Conns |-> "dead"]
    /\ csock = [c \in Conns |-> "none"]
    /\ reading = [c \in Conns |-> NoReading]
    /\ fpc = [f \in Forwarders |-> IF f = 1 THEN "outer" ELSE "dead"]
    /\ fsock = [f \in Forwarders |-> "none"]
    /\ flocal = [f \in Forwarders |-> NoLocal]
    /\ ticks = 0
    /\ presses = 0
    /\ nread = 0
    /\ reported = [t \in 1..MaxReadings |-> 0]
    /\ recorded = {}
    /\ inserted = [temp |-> temp_readings, hum |-> hum_readings]
    /\ bind_failed = {}
    /\ InitWire
    /\ InitServer

NextStarted ==
    \/ Battery
    \/ \E l \in Listeners : Listener(l)
    \/ \E c \in Conns : HandlerStart(c)
    \/ \E c \in Conns : HandlerEnd(c)
    \/ \E f \in Forwarders : ForwarderIdle(f)

SpecStarted == InitStarted /\ [][NextStarted]_vars

\* the battery thread and the operator's buttons alone, the other threads idle
NextBattery ==
    \/ MainStartBattery
    \/ Battery
    \/ Buttons

SpecBattery == Init /\ [][NextBattery]_vars

\* the same with no bound on ticks and presses, the battery thread scheduled
\* fairly: it is a thread of its own that never blocks on another one
BatteryThread ==
    \/ BatCheck
    \/ BatDrain
    \/ BatCloseServer
    \/ BatCloseSockets
    \/ BatClear
    \/ BatDepleted
    \/ BatReturn
    \/ BatCharge
    \/ BatRecharge
    \/ BatNormal
    \/ BatRestartServer
    \/ BatRestartSummary

NextBatteryLive ==
    \/ MainStartBattery
    \/ BatteryThread
    \/ DecreaseBattery
    \/ IncreaseBattery

LiveBattery ==
    /\ Init
    /\ [][NextBatteryLive]_vars
    /\ WF_vars(MainStartBattery)
    /\ WF_vars(BatteryThread)

\* the node in steady operation: main() is done, the battery thread sleeps in
\* its 60 s drain interval, the listener accepts, every connection slot holds
\* a connected sensor, the first forwarder thread is about to enter its loop;
\* the windows are empty or hold what nine earlier readings left in them
WarmFill == 9
WarmTemp == 20
WarmHum == 40

InitFlush ==
    /\ battery_threshold = CriticalLevel
    /\ battery_level = FullLevel
    /\ returning_to_base = FALSE
    /\ running = TRUE
    /\ status = "Normal"
    /\ sensor_server = 1
    /\ active_sensor_sockets = [i \in 1..MaxConns |-> i]
    /\ summary_thread = 1
    /\ sensor_server_thread = 1
    /\ \E k \in {0, WarmFill} :
        /\ temp_readings = [i \in 1..k |-> WarmTemp]
        /\ hum_readings = [i \in 1..k |-> WarmHum]
    /\ anomalies = <<>>
    /\ anomalies_lock = None
    /\ sensor_ids = {}
    /\ anomaly_history = <<>>
    /\ bpc = "drain"
    /\ mpc = "done"
    /\ lpc = [l \in Listeners |-> IF l = 1 THEN "accept" ELSE "dead"]
    /\ lsock = [l \in Listeners |-> IF l = 1 THEN "listening" ELSE "none"]
    /\ cpc = [c \in Conns |-> "loop"]
    /\ csock = [c \in Conns |-> "open"]
    /\ reading = [c \in Conns |-> NoReading]
    /\ fpc = [f \in Forwarders |-> IF f = 1 THEN "outer" ELSE "dead"]
    /\ fsock = [f \in Forwarders |-> "none"]
    /\ flocal = [f \in Forwarders |-> NoLocal]
    /\ ticks = 0
    /\ presses = 0
    /\ nread = 0
    /\ reported = [t \in 1..MaxReadings |-> 0]
    /\ recorded = {}
    /\ inserted = [temp |-> temp_readings, hum |-> hum_readings]
    /\ bind_failed = {}
    /\ InitWire
    /\ InitServer

NextFlush ==
    \/ \E c \in Conns : HandlerEnd(c)
    \/ \E c \in Conns : HandlerData(c)
    \/ \E f \in Forwarders : Forwarder(f)

SpecFlush == InitFlush /\ [][NextFlush]_vars

\* main(), the battery thread and the forwarders alone, no sensor connected;
\* every thread is scheduled fairly (each always has a next statement to run),
\* the aggregator is not constrained
NextForwarder ==
    \/ Main
    \/ Battery
    \/ \E f \in Forwarders : ForwarderIdle(f)

LiveForwarder ==
    /\ InitNode
    /\ [][NextForwarder]_vars
    /\ WF_vars(Main)
    /\ WF_vars(Battery)
    /\ \A f \in Forwarders : WF_vars(ForwarderIdle(f))

\* detect_anomaly and the two windows on their own: a handler has decoded a
\* reading and is about to append it (line 159); the temperature window holds
\* any zero to ten earlier samples, the humidity window as many
ClassifyValues == {10, 100}

InitClassify ==
    /\ battery_threshold = CriticalLevel
    /\ battery_level = FullLevel
    /\ returning_to_base = FALSE
    /\ running = TRUE
    /\ status = "Normal"
    /\ sensor_server = 1
    /\ active_sensor_sockets = [i \in 1..MaxConns |-> i]
    /\ summary_thread = 1
    /\ sensor_server_thread = 1
    /\ \E k \in 0..WindowCap :
        /\ temp_readings \in [1..k -> ClassifyValues]
        /\ hum_readings = [i \in 1..k |-> WarmHum]
    /\ anomalies = <<>>
    /\ anomalies_lock = None
    /\ sensor_ids = SensorIds
    /\ anomaly_history = <<>>
    /\ bpc = "drain"
    /\ mpc = "done"
    /\ lpc = [l \in Listeners |-> IF l = 1 THEN "accept" ELSE "dead"]
    /\ lsock = [l \in Listeners |-> IF l = 1 THEN "listening" ELSE "none"]
    /\ cpc = [c \in Conns |-> IF c = 1 THEN "temp" ELSE "loop"]
    /\ csock = [c \in Conns |-> "open"]
    /\ \E sid \in SensorIds, temp \in ClassifyValues :
        reading = [c \in Conns |->
            IF c = 1 THEN [sensor_id |-> sid, temperature |-> temp,
                           humidity |-> WarmHum, timestamp |-> MaxReadings]
            ELSE NoReading]
    /\ fpc = [f \in Forwarders |-> IF f = 1 THEN "outer" ELSE "dead"]
    /\ fsock = [f \in Forwarders |-> "none"]
    /\ flocal = [f \in Forwarders |-> NoLocal]
    /\ ticks = 0
    /\ presses = 0
    /\ nread = MaxReadings
    /\ reported = [t \in 1..MaxReadings |-> 0]
    /\ recorded = {}
    /\ inserted = [temp |-> temp_readings, hum |-> hum_readings]
    /\ bind_failed = {}
    /\ InitWire
    /\ InitServer

NextClassify ==
    \E c \in Conns :
        \/ HandlerTemp(c)
        \/ HandlerHum(c)
        \/ HandlerDetect(c)
        \/ HandlerRecord(c)

SpecClassify == InitClassify /\ [][NextClassify]_vars

\* the sensors, the wire and the handlers: every connection slot holds a
\* connected sensor, whose records reach the handler in reads of any size
NextWire ==
    \E c \in Conns :
        \/ SensorSendall(c)
        \/ HandlerLoop(c)
        \/ HandlerRecvChunk(c)
        \/ HandlerRecvEnd(c)
        \/ HandlerAddId(c)
        \/ HandlerTemp(c)
        \/ HandlerHum(c)
        \/ HandlerDetect(c)
        \/ HandlerRecord(c)
        \/ HandlerCheck(c)
        \/ HandlerRemove(c)

SpecWire == InitFlush /\ [][NextWire]_vars

\* the aggregator and the drones that send to it
NextServer ==
    \/ \E k \in Drones : RunServerAccept(k)
    \/ \E k \in Drones : DroneSendall(k)
    \/ \E k \in Drones : ClientRecv(k)
    \/ \E k \in Drones : ClientRecvEnd(k)
    \/ ProcessQueue

SpecServer == InitNode /\ [][NextServer]_vars

\* the node without sensors, started at any level from 0 to 100 (line 40),
\* with the operator at the buttons
InitAnyLevel ==
    /\ battery_threshold = CriticalLevel
    /\ battery_level \in 0..FullLevel
    /\ returning_to_base = FALSE
    /\ running = TRUE
    /\ status = "Normal"
    /\ sensor_server = None
    /\ active_sensor_sockets = <<>>
    /\ summary_thread = None
    /\ sensor_server_thread = None
    /\ temp_readings = <<>>
    /\ hum_readings = <<>>
    /\ anomalies = <<>>
    /\ anomalies_lock = None
    /\ sensor_ids = {}
    /\ anomaly_history = <<>>
    /\ bpc = "off"
    /\ mpc = "start_battery"
    /\ lpc = [l \in Listeners |-> "dead"]
    /\ lsock = [l \in Listeners |-> "none"]
    /\ cpc = [c \in Conns |-> "dead"]
    /\ csock = [c \in Conns |-> "none"]
    /\ reading = [c \in Conns |-> NoReading]
    /\ fpc = [f \in Forwarders |-> "dead"]
    /\ fsock = [f \in Forwarders |-> "none"]
    /\ flocal = [f \in Forwarders |-> NoLocal]
    /\ ticks = 0
    /\ presses = 0
    /\ nread = 0
    /\ reported = [t \in 1..MaxReadings |-> 0]
    /\ recorded = {}
    /\ inserted = [temp |-> temp_readings, hum |-> hum_readings]
    /\ bind_failed = {}
    /\ InitWire
    /\ InitServer

NextLevels ==
    \/ Main
    \/ Battery
    \/ Buttons
    \/ \E f \in Forwarders : ForwarderIdle(f)

SpecLevels == InitAnyLevel /\ [][NextLevels]_vars

\* ------------------------------------------------------------------ claims
AliveListeners == {l \in Listeners : IsAlive(lpc[l])}
AliveForwarders == {f \in Forwarders : IsAlive(fpc[f])}

\* C1: every tick in Normal lowers the level by exactly 1, leaves the machine
\* Normal when the new level is above the configured threshold, and moves it to
\* ReturningToBase on the very tick that brings the level down to the threshold.
C1_TickReachesThreshold ==
    [][BatDrain =>
        /\ battery_level' = battery_level - 1
        /\ (battery_level' > battery_threshold => status' = "Normal")
        /\ (battery_level' <= battery_threshold => status' = "Returning to base")]_vars

\* C2: the level is compared with the configured battery_threshold: the machine
\* never leaves Normal while the level is above it, and a tick that finds the
\* level at or below it does not leave the machine in Normal.
C2_ConfiguredThreshold ==
    [][/\ (status = "Normal" /\ status' # "Normal") => battery_level' <= battery_threshold
       /\ (BatDrain /\ battery_level' <= battery_threshold) => status' # "Normal"]_vars

\* C3: no accept on the listening endpoint succeeds while status is not Normal.
C3_NoAcceptUnlessNormal ==
    [][(\E l \in Listeners : ListenerAccept(l)) => status = "Normal"]_vars

\* C4: by the time the machine is Charging, the transition out of Normal has
\* stopped the listening endpoint, closed every connection in the
\* active-connections set and left that set empty.
C4_TeardownBeforeCharging ==
    status = "Charging" =>
        /\ \A l \in Listeners : lsock[l] # "listening"
        /\ active_sensor_sockets = <<>>

\* C5: each time the ReturningToBase -> Charging -> Normal cycle completes, the
\* level is 100 and exactly one listener thread and exactly one forwarder
\* thread are running.
C5_ExactlyOneEach ==
    [][BatRestartSummary =>
        /\ battery_level' = FullLevel
        /\ Cardinality(AliveListeners') = 1
        /\ Cardinality(AliveForwarders') = 1]_vars

\* C6: status changes only along Normal -> ReturningToBase -> Charging -> Normal.
C6_StatusOrder ==
    [][status' # status =>
        <<status, status'>> \in {<<"Normal", "Returning to base">>,
                                 <<"Returning to base", "Charging">>,
                                 <<"Charging", "Normal">>}]_vars

\* a whole cycle has been walked: back in Normal, about to restart the threads
C6_Witness == status = "Normal" /\ bpc = "restart_server"

\* C8: no Summary is sent while status is ReturningToBase or Charging.
C8_SendOnlyWhileNormal ==
    [][(\E f \in Forwarders : FwdSend(f)) => status = "Normal"]_vars

MeanOrZero(q) == IF q = <<>> THEN Zero ELSE Mean(q)

\* C9: at every flush each window's average is its mean, or 0 when it is
\* empty, each window on its own; the averaging never fails, whatever the
\* contents of the two windows, and goes on to build the Summary.
C9_FlushAverages ==
    [][\A f \in Forwarders :
        /\ FwdAvg(f) => flocal'[f].avg_temp = MeanOrZero(temp_readings)
        /\ (FwdAvg(f) /\ fpc'[f] = "lock") => flocal'[f].avg_hum = MeanOrZero(hum_readings)
        /\ FwdAvgHum(f) =>
            /\ fpc'[f] = "lock"
            /\ flocal'[f].avg_hum = MeanOrZero(hum_readings)]_vars

\* how often the anomaly of the reading stamped t occurs in a list
Occurrences(q, t) == Cardinality({i \in 1..Len(q) : q[i].timestamp = t})

\* C10: the flush copies, logs and clears the pending queue atomically with
\* respect to the handlers: while a forwarder is between its copy and its
\* clear the queue is still what it copied, and every anomaly a handler queued
\* is in the queue or in the history log, in the log at most once, out of the
\* queue once logged, and listed by exactly one built Summary once flushed.
C10_FlushedExactlyOnce ==
    /\ \A f \in Forwarders :
        fpc[f] \in {"extend", "clear_anomalies"} =>
            anomalies = flocal[f].anomalies_to_send
    /\ \A t \in 1..MaxReadings :
        LET queued == Occurrences(anomalies, t)
            logged == Occurrences(anomaly_history, t)
            clearing == \E f \in Forwarders : fpc[f] = "clear_anomalies"
            building == \E f \in Forwarders :
                            /\ fpc[f] \in {"clear_anomalies", "build"}
                            /\ Occurrences(flocal[f].anomalies_to_send, t) = 1
        IN  IF t \in recorded
            THEN /\ queued <= 1 /\ logged <= 1 /\ reported[t] <= 1
                 /\ queued + logged >= 1
                 /\ (queued = 1 /\ logged = 1) => clearing
                 /\ reported[t] = 1 => (logged = 1 /\ queued = 0)
                 /\ (logged = 1 /\ reported[t] = 0) => building
            ELSE queued = 0 /\ logged = 0 /\ reported[t] = 0

\* one anomaly has been flushed and listed, the next one is waiting in the queue
C10_Witness ==
    \E t, u \in 1..MaxReadings :
        /\ t # u
        /\ reported[t] = 1
        /\ Occurrences(anomaly_history, t) = 1
        /\ Occurrences(anomalies, u) = 1

\* C11: the seen-sensors set is snapshotted and cleared atomically with respect
\* to the handlers: what a flush clears from sensor_ids is what the Summary it
\* built lists, so no id added after the snapshot is discarded unreported.
C11_ClearedIdsWereReported ==
    [][\A f \in Forwarders :
        FwdClear(f) => sensor_ids \subseteq flocal[f].summary.sensor_ids]_vars

\* C12: a flush whose send fails has already cleared its data: after the
\* failed send neither the queue nor the seen-sensors set holds an entry
\* snapshotted for the failed Summary.
C12_FailedSendLosesCycle ==
    [][\A f \in Forwarders :
        FwdSendFail(f) =>
            /\ \A i \in 1..Len(flocal[f].summary.anomalies) :
                    Occurrences(anomalies', flocal[f].summary.anomalies[i].timestamp) = 0
            /\ flocal[f].summary.sensor_ids \cap sensor_ids' = {}]_vars

\* a connect or a send of some forwarder fails
ForwardFails == \E f \in Forwarders : FwdConnectFail(f) \/ FwdSendFail(f)

\* C13: while status stays Normal a connect or send failure never stops the
\* forwarder: unless status keeps leaving Normal or the failures go on for
\* ever, a Summary is sent again and again.
C13_RetriesUntilSent ==
    \/ []<>(status # "Normal")
    \/ []<><<ForwardFails>>_vars
    \/ []<><<\E f \in Forwarders : FwdSend(f)>>_vars

\* a send has failed, the forwarder has slept and is back at line 183, about
\* to replace the broken connection
C13_Witness ==
    \E f \in Forwarders :
        /\ fpc[f] = "connect"
        /\ fsock[f] = "broken"
        /\ status = "Normal"

\* the forwarder threads that hold an established connection to the aggregator
OpenConnections == {f \in Forwarders : fsock[f] = "connected"}

C15_SummaryReportsItsReadings ==
    [][\A f \in Forwarders :
        FwdBuild(f) =>
            LET summary == flocal'[f].summary
            IN  /\ \A i, j \in 1..Len(summary.anomalies) :
                        i < j => summary.anomalies[i].timestamp < summary.anomalies[j].timestamp
                /\ \A t \in 1..MaxReadings : reported'[t] <= 1
                /\ \A i \in 1..Len(summary.anomalies) :
                        summary.anomalies[i].sensor_id \in summary.sensor_ids]_vars

\* sum of the squares of the samples
RECURSIVE SumSq(_)
SumSq(s) == IF s = <<>> THEN 0 ELSE Head(s) * Head(s) + SumSq(Tail(s))

\* |value - mean| > 2 * std over the n samples of window, with mean = S/n and
\* population variance Q/n - (S/n)^2, both sides squared and scaled by n^2
Outlier(value, window) ==
    LET n == Len(window)
        S == SumSeq(window)
        Q == SumSq(window)
    IN  (n * value - S) * (n * value - S) > 4 * (n * Q - S * S)

Uniform(window) == \A i \in 1..Len(window) : window[i] = window[1]

NineTensAndHundred == [i \in 1..WindowCap |-> IF i < WindowCap THEN 10 ELSE 100]

\* C16: the classification of a value against the window it was just
\* appended to is true iff the window holds 10 samples and
\* |value - mean| > 2 * std (population std over all 10): false for every
\* shorter window, false for a full uniform window, and true for
\* [10]*9 + [100], whose mean is 19 and std 27 (81 > 54).
C16_ClassifyIsTwoSigma ==
    [][\A c \in Conns :
        HandlerDetect(c) =>
            LET value == reading[c].temperature
                flagged == cpc'[c] = "record"
            IN  /\ flagged <=> (Len(temp_readings) = 10 /\ Outlier(value, temp_readings))
                /\ Len(temp_readings) < 10 => ~flagged
                /\ (Len(temp_readings) = 10 /\ Uniform(temp_readings)) => ~flagged
                /\ temp_readings = NineTensAndHundred =>
                    /\ flagged
                    /\ SumSeq(temp_readings) = 19 * 10
                    /\ 10 * SumSq(temp_readings) - 190 * 190 = 27 * 27 * 10 * 10
                    /\ 10 * value - 190 = 81 * 10
                    /\ 81 > 2 * 27]_vars

\* the value 100 appended to nine samples of 10 has been flagged
C16_Witness ==
    \E c \in Conns :
        /\ cpc[c] = "record"
        /\ reading[c].temperature = 100
        /\ temp_readings = NineTensAndHundred

\* the last k elements of q
LastOf(q, k) == SubSeq(q, Len(q) - k + 1, Len(q))

Min(a, b) == IF a < b THEN a ELSE b

\* C17: after any n insertions a window holds exactly the last min(n, 10)
\* inserted values in insertion order; its length never exceeds 10, and after
\* 11 insertions it is the inserted sequence without its first value.
C17_WindowHoldsLastTen ==
    /\ Len(temp_readings) <= 10
    /\ Len(hum_readings) <= 10
    /\ temp_readings = LastOf(inserted.temp, Min(Len(inserted.temp), 10))
    /\ hum_readings = LastOf(inserted.hum, Min(Len(inserted.hum), 10))
    /\ Len(inserted.temp) = 11 => temp_readings = Tail(inserted.temp)
    /\ Len(inserted.hum) = 11 => hum_readings = Tail(inserted.hum)

\* eleven values inserted, the first a 100 and the others 10: the window holds
\* ten samples and the 100 is gone
C17_Witness ==
    /\ Len(inserted.temp) = 11
    /\ inserted.temp[1] = 100
    /\ \A i \in 2..11 : inserted.temp[i] = 10
    /\ Len(temp_readings) = 10
    /\ ~InList(temp_readings, 100)

\* deque(maxlen=50).append
SeriesAppend(q, x) == IF Len(q) < SeriesCap THEN Append(q, x) ELSE Append(Tail(q), x)

\* C18: the aggregator keeps one series of at most 50 points per drone_id:
\* processing a Summary of drone A appends exactly one point to A's series,
\* evicting A's oldest point once A holds 50, and its anomalies to A's anomaly
\* log, and leaves the series and the log of every other drone unchanged.
C18_OneBoundedSeriesPerDrone ==
    [][ProcessQueue =>
        LET msg == Head(msg_queue)
            A == msg.drone_id
        IN  /\ \A d \in Drones : Len(drone_data'[d]) <= SeriesCap
            /\ drone_data'[A] = SeriesAppend(drone_data[A], msg.number)
            /\ central_anomalies'[A] = central_anomalies[A] \o msg.anomalies
            /\ \A d \in Drones \ {A} :
                /\ drone_data'[d] = drone_data[d]
                /\ central_anomalies'[d] = central_anomalies[d]]_vars

\* C19: a Summary decoded by a receive loop is pushed onto the delivery queue
\* exactly once; the fan-in step consumes the head of the queue, once, and
\* appends one point to the series of the drone that sent it; the Summaries of
\* one connection wait in the queue in the order they were decoded.
C19_PushedOnceConsumedInOrder ==
    [][/\ \A k \in Drones :
            (ClientRecv(k) /\ client_buffer'[k] = <<>>) =>
                /\ Len(msg_queue') = Len(msg_queue) + 1
                /\ SubSeq(msg_queue', 1, Len(msg_queue)) = msg_queue
                /\ msg_queue'[Len(msg_queue')].drone_id = k
                /\ \A i \in 1..Len(msg_queue) :
                        msg_queue[i].number # msg_queue'[Len(msg_queue')].number
       /\ \A i, j \in 1..Len(msg_queue) :
            (i < j /\ msg_queue[i].drone_id = msg_queue[j].drone_id) =>
                msg_queue[i].number < msg_queue[j].number
       /\ ProcessQueue =>
            /\ msg_queue' = Tail(msg_queue)
            /\ Len(drone_data'[Head(msg_queue).drone_id]) =
                    Len(drone_data[Head(msg_queue).drone_id]) + 1]_vars

\* C20: the buffer of a sensor connection is emptied only by a successful
\* decode: the read that delivers the last piece of a record decodes that
\* record and hands it on, and a read after which the decode fails leaves the
\* buffer holding everything read so far.
C20_DecodedOnLastFragment ==
    [][\A c \in Conns :
        LET n == Len(stream[c]) - Len(stream'[c])
            chunk == SubSeq(stream[c], 1, n)
            completed == {chunk[i].rec : i \in {j \in 1..n : chunk[j].part = RecordParts}}
        IN  /\ HandlerRecvChunk(c) =>
                /\ cpc'[c] # "add_id" => buffer'[c] = buffer[c] \o chunk
                /\ \A r \in completed : cpc'[c] = "add_id" /\ reading'[c] = r
            /\ (buffer[c] # <<>> /\ buffer'[c] = <<>>) =>
                (HandlerRecvChunk(c) /\ cpc'[c] = "add_id")]_vars

\* the buffer holds one complete record and further bytes after it
RecordThenMore(buf) ==
    /\ Len(buf) > RecordParts
    /\ Decodes(SubSeq(buf, 1, RecordParts))

\* C21: a read that leaves the buffer holding one complete record followed by
\* further bytes decodes and processes that record and drops the trailing
\* bytes with the buffer reset, so that the connection can decode later records.
C21_TrailingBytesDropped ==
    [][\A c \in Conns :
        LET n == Len(stream[c]) - Len(stream'[c])
            joined == buffer[c] \o SubSeq(stream[c], 1, n)
        IN  (HandlerRecvChunk(c) /\ RecordThenMore(joined)) =>
                /\ cpc'[c] = "add_id"
                /\ reading'[c] = joined[1].rec
                /\ buffer'[c] = <<>>]_vars

\* C22: when the battery thread clears the active-connections list, every
\* connection in it has already been closed, a connection registered by its
\* handler during the teardown included.
C22_ClosedBeforeCleared ==
    [][BatClear =>
        \A i \in 1..Len(active_sensor_sockets) :
            csock[active_sensor_sockets[i]] = "closed"]_vars

\* the handlers that have appended their connection and not yet ended
RunningHandlers == {c \in Conns : cpc[c] \notin {"register", "dead"}}

\* C23: active_sensor_sockets holds only connections whose handler is still
\* running: a handler whose receive loop has terminated, for whatever reason,
\* takes its connection out of the list before it ends.
C23_OnlyRunningHandlersTracked ==
    \A i \in 1..Len(active_sensor_sockets) :
        active_sensor_sockets[i] \in RunningHandlers

\* a handler's loop ended on the end of the stream, without any teardown by
\* the battery thread, and the handler has removed its connection and ended
C23_Witness ==
    \E c \in Conns :
        /\ cpc[c] = "dead"
        /\ csock[c] = "closed"
        /\ ~returning_to_base
        /\ ticks = 0
        /\ ~InList(active_sensor_sockets, c)

\* C24: in every reachable state, from process start onward, at most one
\* listener thread and at most one forwarder thread are alive, also when the
\* battery thread's restart step runs during main()'s start of the two.
C24_AtMostOneEach ==
    /\ Cardinality(AliveListeners) <= 1
    /\ Cardinality(AliveForwarders) <= 1

\* C25: battery_level is within 0..100 in every reachable state and in every
\* Summary built for sending, and a tick decrements it only when it is above 0.
C25_LevelInRange ==
    /\ battery_level \in 0..100
    /\ \A f \in Forwarders :
        flocal[f].summary.built => flocal[f].summary.battery_level \in 0..100
    /\ bpc = "drain" => battery_level > 0

\* C26: a bind or listen failure is fatal for the listener and not retried:
\* the listener ends without binding again, the failure is made known to the
\* battery state machine (its flags or status change with it), and the restart
\* step starts no new listener in place of one that ended on such a failure.
C26_BindFailureFatalAndKnown ==
    [][/\ \A l \in Listeners :
            (ListenerBind(l) /\ l \in bind_failed') =>
                /\ lpc'[l] = "dead"
                /\ <<returning_to_base, running, status>>' # <<returning_to_base, running, status>>
       /\ (BatRestartServer /\ lpc' # lpc) => sensor_server_thread \notin bind_failed]_vars

\* C27: the clean-up of a handler never fails: whenever a handler executes the
\* remove of line 175, its connection is still in active_sensor_sockets.
C27_RemoveFindsConnection ==
    [][\A c \in Conns : HandlerRemove(c) => InList(active_sensor_sockets, c)]_vars

====
